---- MODULE Spec2Model ----
(***************************************************************************)
(* tg_stats (src/src/main.rs): a leaderboard of the most-reacted messages  *)
(* of a Telegram chat export, for one calendar year in a fixed-offset      *)
(* timezone.                                                               *)
(*                                                                         *)
(* Representation of the Rust values:                                      *)
(*   String (text that the code parses or slices)  sequence of 1-char      *)
(*                                                 strings                 *)
(*   String (the message type, only compared)      a TLA+ string           *)
(*   i32                                           an integer              *)
(*   i64                                           [neg, digits]: sign and *)
(*                                                 decimal magnitude, no   *)
(*                                                 leading zero            *)
(*   u32                                           <<hi, lo>>: two 16-bit  *)
(*                                                 limbs, hi * 2^16 + lo   *)
(*   Option<T>                                     None or Some(value)     *)
(* The wide types are kept in pieces because the model checker's integers  *)
(* are 32-bit.                                                             *)
(***************************************************************************)
EXTENDS Integers, Sequences, FiniteSets, TLC

\* Option<T>
None == [some |-> FALSE]
Some(x) == [some |-> TRUE, val |-> x]

MaxI32 == 2147483647
MinI32 == -MaxI32 - 1
Limb == 2 ^ 16

Min(a, b) == IF a <= b THEN a ELSE b
Abs(a) == IF a < 0 THEN -a ELSE a

(***************************************************************************)
(* Decimal text                                                            *)
(***************************************************************************)
DigitChars == <<"0", "1", "2", "3", "4", "5", "6", "7", "8", "9">>

IsDigitChar(c) == \E i \in 1..10 : DigitChars[i] = c

DigitVal(c) == (CHOOSE i \in 1..10 : DigitChars[i] = c) - 1

\* A digit sequence without its leading zeros (<<0>> for zero).
RECURSIVE StripZeros(_)
StripZeros(ds) ==
    IF Len(ds) > 1 /\ ds[1] = 0 THEN StripZeros(Tail(ds)) ELSE ds

\* Magnitudes compared as numbers; both without leading zeros.
RECURSIVE DigitsLeq(_, _)
DigitsLeq(a, b) ==
    IF Len(a) # Len(b) THEN Len(a) < Len(b)
    ELSE IF a = <<>> THEN TRUE
    ELSE IF a[1] # b[1] THEN a[1] < b[1]
    ELSE DigitsLeq(Tail(a), Tail(b))

\* str::parse for a signed integer type, before the width check: an optional
\* sign, then one or more ASCII digits and nothing else.
ParseDecimal(s) ==
    LET signed == Len(s) > 0 /\ s[1] \in {"+", "-"}
        body   == IF signed THEN Tail(s) ELSE s
    IN  IF body = <<>> \/ \E i \in 1..Len(body) : ~IsDigitChar(body[i])
        THEN None
        ELSE LET ds == StripZeros([i \in 1..Len(body) |-> DigitVal(body[i])])
             IN  Some([neg |-> signed /\ s[1] = "-" /\ ds # <<0>>, digits |-> ds])

I32MaxDigits == <<2, 1, 4, 7, 4, 8, 3, 6, 4, 7>>
I32MinDigits == <<2, 1, 4, 7, 4, 8, 3, 6, 4, 8>>
I64MaxDigits == <<9, 2, 2, 3, 3, 7, 2, 0, 3, 6, 8, 5, 4, 7, 7, 5, 8, 0, 7>>
I64MinDigits == <<9, 2, 2, 3, 3, 7, 2, 0, 3, 6, 8, 5, 4, 7, 7, 5, 8, 0, 8>>

FitsI32(v) == DigitsLeq(v.digits, IF v.neg THEN I32MinDigits ELSE I32MaxDigits)
FitsI64(v) == DigitsLeq(v.digits, IF v.neg THEN I64MinDigits ELSE I64MaxDigits)

\* The value of a magnitude, built downwards so that -2^31 is reached
\* without passing through 2^31.
RECURSIVE NegValue(_, _)
NegValue(ds, acc) ==
    IF ds = <<>> THEN acc ELSE NegValue(Tail(ds), acc * 10 - ds[1])

I32Value(v) == IF v.neg THEN NegValue(v.digits, 0)
               ELSE -NegValue(v.digits, 0)

\* parse::<i32>(): None for what is not a number or does not fit.
parse_i32(s) ==
    LET v == ParseDecimal(s)
    IN  IF ~v.some THEN None
        ELSE IF ~FitsI32(v.val) THEN None
        ELSE Some(I32Value(v.val))

\* parse::<i64>().ok(): the i64, or None.
parse_i64(s) ==
    LET v == ParseDecimal(s)
    IN  IF ~v.some THEN None
        ELSE IF ~FitsI64(v.val) THEN None
        ELSE v

\* i64::to_string
RECURSIVE DigitsToChars(_)
DigitsToChars(ds) ==
    IF ds = <<>> THEN <<>>
    ELSE <<DigitChars[ds[1] + 1]>> \o DigitsToChars(Tail(ds))

to_string(v) == (IF v.neg THEN <<"-">> ELSE <<>>) \o DigitsToChars(v.digits)

(***************************************************************************)
(* i32 arithmetic of the timezone resolver                                 *)
(***************************************************************************)
\* Rust's / and % truncate towards zero.
TruncDiv(a, b) == IF a < 0 /\ a % b # 0 THEN a \div b + 1 ELSE a \div b
TruncRem(a, b) == a - TruncDiv(a, b) * b

\* a * b overflows i32 (b > 0, a > -2^31): the product leaves -2^31..2^31-1.
MulOverflows(a, b) ==
    /\ Abs(a) > MaxI32 \div b
    /\ ~(a < 0 /\ -a = MaxI32 \div b + 1 /\ MaxI32 % b = b - 1)

\* a * b mod 2^32 as an i32, for 0 < b < 2^12, by 16-bit limbs.
WrappingMul(a, b) ==
    LET al == a % Limb
        ah == (a - al) \div Limb
        p  == al * b
        lo == p % Limb
        hi == (ah * b + p \div Limb) % Limb
    IN  (IF hi >= Limb \div 2 THEN hi - Limb ELSE hi) * Limb + lo

\* a + b overflows i32.
AddOverflows(a, b) ==
    IF b >= 0 THEN a > MaxI32 - b ELSE a < MinI32 - b

\* a + b mod 2^32 as an i32.
WrappingAdd(a, b) ==
    IF ~AddOverflows(a, b) THEN a + b
    ELSE IF b >= 0 THEN ((a - MaxI32) - 1) + ((b - MaxI32) - 1)
    ELSE ((a + MaxI32) + 1) + ((b + MaxI32) + 1)

(***************************************************************************)
(* 1. The timezone (main, lines 69-83)                                     *)
(***************************************************************************)
\* String::contains(':') and String::replace(":", "")
Contains(s, c) == \E i \in 1..Len(s) : s[i] = c
Remove(s, c) == SelectSeq(s, LAMBDA x : x # c)

\* FixedOffset::east_opt: strictly within a day either side.
east_opt(secs) ==
    IF -(24 * 3600) < secs /\ secs < 24 * 3600 THEN Some(secs) ELSE None

\* (tz_offset / 100) * 3600 + (tz_offset % 100) * 60 in i32. With overflow
\* checks (the debug profile) an overflowing * or + panics; without them (the
\* release profile) it wraps.
offset_secs(tz_offset, overflow_checks) ==
    LET h == TruncDiv(tz_offset, 100)
        m == TruncRem(tz_offset, 100) * 60
    IN  IF overflow_checks /\ MulOverflows(h, 3600)
        THEN [kind |-> "panic", why |-> "attempt to multiply with overflow"]
        ELSE LET hs == WrappingMul(h, 3600)
             IN  IF overflow_checks /\ AddOverflows(hs, m)
                 THEN [kind |-> "panic", why |-> "attempt to add with overflow"]
                 ELSE [kind |-> "ok", val |-> WrappingAdd(hs, m)]

\* The whole of step 1: the FixedOffset's seconds east of UTC, an error of
\* one of the two kinds, or a panic.
resolve_timezone(timezone, overflow_checks) ==
    LET text == IF Contains(timezone, ":") THEN Remove(timezone, ":") ELSE timezone
        n    == parse_i32(text)
    IN  IF ~n.some THEN [kind |-> "error", why |-> "InvalidTimezoneFormat"]
        ELSE LET secs == offset_secs(n.val, overflow_checks)
             IN  IF secs.kind = "panic" THEN secs
                 ELSE IF ~east_opt(secs.val).some
                      THEN [kind |-> "error", why |-> "InvalidTimezoneOffset"]
                      ELSE [kind |-> "ok", val |-> east_opt(secs.val).val]

(***************************************************************************)
(* chrono: epoch seconds to a calendar moment                              *)
(***************************************************************************)
SecsPerDay == 24 * 3600
\* The years chrono's NaiveDate holds: one short of the 19 bits at either
\* end, -262143..262142.
MAX_YEAR == MaxI32 \div 2 ^ 13 - 1
MIN_YEAR == MinI32 \div 2 ^ 13 + 1

\* Long division of a decimal magnitude by the seconds of a day.
RECURSIVE LongDiv(_, _, _)
LongDiv(ds, rem, q) ==
    IF ds = <<>> THEN [q |-> StripZeros(q), r |-> rem]
    ELSE LET cur == rem * 10 + ds[1]
         IN  LongDiv(Tail(ds), cur % SecsPerDay, Append(q, cur \div SecsPerDay))

\* The proleptic Gregorian date of a day number counted from 1970-01-01.
civil_from_days(days) ==
    LET z   == days + 719468
        era == z \div 146097
        doe == z - era * 146097
        yoe == (doe - doe \div 1460 + doe \div 36524 - doe \div 146096) \div 365
        doy == doe - (365 * yoe + yoe \div 4 - yoe \div 100)
        mp  == (5 * doy + 2) \div 153
        d   == doy - (153 * mp + 2) \div 5 + 1
        m   == IF mp < 10 THEN mp + 3 ELSE mp - 9
        y   == yoe + era * 400 + (IF m <= 2 THEN 1 ELSE 0)
    IN  [year |-> y, month |-> m, day |-> d]

\* NaiveDateTime::from_timestamp_opt(secs, 0): the day (floored) and the
\* second of the day; None when the day does not fit an i32 or its year is
\* outside MIN_YEAR..MAX_YEAR. A quotient of ten digits or more is past both.
from_timestamp_opt(ts) ==
    LET qr == LongDiv(ts.digits, 0, <<>>)
    IN  IF Len(qr.q) > 9 THEN None
        ELSE LET q    == -NegValue(qr.q, 0)
                 days == IF ~ts.neg THEN q ELSE IF qr.r = 0 THEN -q ELSE -q - 1
                 secs == IF ~ts.neg \/ qr.r = 0 THEN qr.r ELSE SecsPerDay - qr.r
                 y    == civil_from_days(days).year
             IN  IF y < MIN_YEAR \/ y > MAX_YEAR THEN None
                 ELSE Some([days |-> days, secs |-> secs])

\* dt_local with the offset left out of the calendar fields: the UTC date.
dt_local_utc(utc, tz) ==
    LET date == civil_from_days(utc.days)
    IN  [year |-> date.year, month |-> date.month, day |-> date.day,
         hour |-> utc.secs \div 3600, minute |-> (utc.secs % 3600) \div 60,
         second |-> utc.secs % 60, offset |-> tz]

\* with_timezone(&tz): the same instant read on the clock of the offset.
dt_local(utc, tz) ==
    LET s    == utc.secs + tz
        days == utc.days + s \div SecsPerDay
        sod  == s % SecsPerDay
        date == civil_from_days(days)
    IN  [year |-> date.year, month |-> date.month, day |-> date.day,
         hour |-> sod \div 3600, minute |-> (sod % 3600) \div 60,
         second |-> sod % 60, offset |-> tz]

(***************************************************************************)
(* u32 arithmetic of the reaction sum                                      *)
(***************************************************************************)
U32Zero == <<0, 0>>

\* a + b without any wrap: the high limb may pass 2^16.
WideAdd(a, b) ==
    <<a[1] + b[1] + (a[2] + b[2]) \div Limb, (a[2] + b[2]) % Limb>>

\* Ordering::cmp on u32, as -1, 0, 1.
U32Cmp(a, b) ==
    IF a[1] # b[1] THEN (IF a[1] < b[1] THEN -1 ELSE 1)
    ELSE IF a[2] # b[2] THEN (IF a[2] < b[2] THEN -1 ELSE 1)
    ELSE 0

\* Iterator::sum over u32: folds with +, which panics on overflow with
\* overflow checks and wraps without them.
RECURSIVE sum(_, _, _)
sum(counts, acc, overflow_checks) ==
    IF counts = <<>> THEN [kind |-> "ok", val |-> acc]
    ELSE LET w == WideAdd(acc, counts[1])
         IN  IF w[1] >= Limb /\ overflow_checks
             THEN [kind |-> "panic", why |-> "attempt to add with overflow"]
             ELSE sum(Tail(counts), <<w[1] % Limb, w[2]>>, overflow_checks)

(***************************************************************************)
(* 2. process_messages (lines 141-182)                                     *)
(***************************************************************************)
\* The filter_map closure on one message: Some(ProcessedMessage), None with
\* the early return that dropped it, or a panic.
filter_map_closure(msg, target_year, tz, overflow_checks) ==
    IF msg.type # "message" THEN [kind |-> "none", why |-> "type"]
    ELSE IF ~msg.date_unixtime.some THEN [kind |-> "none", why |-> "absent"]
    ELSE LET unix_timestamp == parse_i64(msg.date_unixtime.val)
         IN
    IF ~unix_timestamp.some THEN [kind |-> "none", why |-> "unparseable"]
    ELSE LET naive == from_timestamp_opt(unix_timestamp.val)
         IN
    IF ~naive.some THEN [kind |-> "none", why |-> "out_of_range"]
    ELSE LET local == dt_local(naive.val, tz)
         IN
    IF local.year # target_year THEN [kind |-> "none", why |-> "year"]
    ELSE LET total_reactions == sum(msg.reactions, U32Zero, overflow_checks)
         IN
    IF total_reactions.kind = "panic" THEN total_reactions
    ELSE IF total_reactions.val = U32Zero THEN [kind |-> "none", why |-> "zero"]
    ELSE [kind |-> "some",
          val |-> [id |-> msg.id, total_reactions |-> total_reactions.val,
                   date |-> local]]

\* The iterator chain: the closure on every message in input order, the
\* Some results collected in that order. A panic ends the run.
RECURSIVE process_from(_, _, _, _, _)
process_from(messages, acc, target_year, tz, overflow_checks) ==
    IF messages = <<>> THEN [kind |-> "ok", val |-> acc]
    ELSE LET r == filter_map_closure(messages[1], target_year, tz, overflow_checks)
         IN  IF r.kind = "panic" THEN r
             ELSE process_from(Tail(messages),
                               IF r.kind = "some" THEN Append(acc, r.val) ELSE acc,
                               target_year, tz, overflow_checks)

process_messages(messages, target_year, tz, overflow_checks) ==
    process_from(messages, <<>>, target_year, tz, overflow_checks)

(***************************************************************************)
(* 3, 4. Sorting, the top and the links (main, lines 93-127)               *)
(***************************************************************************)
\* The comparator of line 94: b.total_reactions.cmp(&a.total_reactions).
compare(a, b) == U32Cmp(b.total_reactions, a.total_reactions)

\* insert that places x in front of the elements it ties with.
RECURSIVE insert_before_ties(_, _)
insert_before_ties(sorted, x) ==
    IF sorted = <<>> THEN <<x>>
    ELSE IF compare(sorted[1], x) >= 0 THEN <<x>> \o sorted
    ELSE <<sorted[1]>> \o insert_before_ties(Tail(sorted), x)

\* x placed behind every element that does not compare Greater than it.
RECURSIVE insert(_, _)
insert(sorted, x) ==
    IF sorted = <<>> THEN <<x>>
    ELSE IF compare(sorted[1], x) = 1 THEN <<x>> \o sorted
    ELSE <<sorted[1]>> \o insert(Tail(sorted), x)

\* slice::sort_by: a stable sort, equal elements keep their order.
RECURSIVE sort_from(_, _)
sort_from(v, sorted) ==
    IF v = <<>> THEN sorted ELSE sort_from(Tail(v), insert(sorted, v[1]))

sort_by(v) == sort_from(v, <<>>)

\* take that slices v[..limit]: nothing when the limit passes the length.
take_slice(v, limit) == IF limit > Len(v) THEN <<>> ELSE SubSeq(v, 1, limit)

\* into_iter().take(limit).collect()
take(v, limit) == SubSeq(v, 1, Min(limit, Len(v)))

\* str::starts_with
starts_with(s, prefix) ==
    Len(s) >= Len(prefix) /\ SubSeq(s, 1, Len(prefix)) = prefix

\* Lines 109-114: the decimal text of the id, without a leading "-100".
clean_channel_id(id) ==
    LET channel_id_str == to_string(id)
    IN  IF starts_with(channel_id_str, <<"-", "1", "0", "0">>)
        THEN SubSeq(channel_id_str, 5, Len(channel_id_str))
        ELSE channel_id_str

\* Line 118: format!("https://t.me/c/{}/{}", clean_channel_id, msg.id)
link(clean, id) == <<"https://t.me/c/">> \o clean \o <<"/">> \o to_string(id)

\* Line 117: "%Y-%m-%d %H:%M", the fields it shows.
date_str(date) == <<date.year, date.month, date.day, date.hour, date.minute>>

(***************************************************************************)
(* One run of main                                                         *)
(***************************************************************************)
VARIABLES
    args,               \* Args: timezone, year, limit, file (what the path holds)
    overflow_checks,    \* the build profile: TRUE debug, FALSE release
    pc,                 \* the statement main is at
    failure,            \* the error or panic that ended the run, "" for none
    timezone,           \* Option: the FixedOffset of line 83, seconds east
    file_read,          \* whether load_chat_data has opened the file
    chat_data,          \* Option: the ChatExport of line 86
    log,                \* per message the closure of line 148 ran on, how it returned
    relevant_messages,  \* the Vec of lines 91 and 94
    top_n,              \* the Vec of line 97
    out                 \* the lines printed so far

vars == <<args, overflow_checks, pc, failure, timezone, file_read, chat_data,
          log, relevant_messages, top_n, out>>

\* ------------------------------------------------------------ the inputs
MaxMsgs == 3
MaxLimit == 4

RECURSIVE NatDigits(_)
NatDigits(n) == IF n < 10 THEN <<n>> ELSE Append(NatDigits(n \div 10), n % 10)

Text(ds) == DigitsToChars(ds)
I64(n) == [neg |-> n < 0, digits |-> NatDigits(Abs(n))]
U32(n) == <<0, n>>

TimezoneTexts == {
    <<"+">> \o Text(<<0, 3, 0, 0>>),
    <<"+">> \o Text(<<0, 0, 0, 0>>),
    <<"-">> \o Text(<<0, 5, 0, 0>>),
    <<"+", "0", "3", ":", "0", "0">>,
    Text(<<0, 5, 3, 0>>),
    <<"+">> \o Text(<<2, 3, 5, 9>>),
    <<"-">> \o Text(<<2, 3, 5, 9>>),
    <<"+">> \o Text(<<2, 4, 0, 0>>),
    <<"-">> \o Text(<<2, 4, 0, 0>>),
    <<"+">> \o Text(<<0, 3, 9, 9>>),
    <<"+">> \o Text(<<2, 3, 9, 9>>),
    <<>>,
    <<"+">>,
    <<"U", "T", "C">>,
    <<"+", "3", "h">>,
    Text(<<5, 9, 6, 5, 2, 3, 9, 9>>),
    Text(<<1, 1, 9, 3, 0, 4, 6, 0, 0>>),
    Text(I32MaxDigits),
    <<"-">> \o Text(I32MinDigits),
    Text(I32MinDigits) }

TzPlus3 == <<"+">> \o Text(<<0, 3, 0, 0>>)
TzUtc == <<"+">> \o Text(<<0, 0, 0, 0>>)
TzMinus5 == <<"-">> \o Text(<<0, 5, 0, 0>>)

\* Epoch seconds as the export writes them.
T_2023_12_31_2330 == Text(<<1, 7, 0, 4, 0, 6, 5, 4, 0, 0>>)
T_2024_01_01_0030 == Text(<<1, 7, 0, 4, 0, 6, 9, 0, 0, 0>>)
T_2023_06_15_1200 == Text(<<1, 6, 8, 6, 8, 3, 0, 4, 0, 0>>)
T_300000_06_01 == Text(<<9, 4, 0, 4, 9, 3, 1, 5, 1, 3, 6, 0, 0>>)
\* The first second past the last year chrono holds.
T_262143_01_01 == Text(<<8, 2, 1, 0, 2, 6, 6, 8, 7, 6, 8, 0, 0>>)

DateTexts == {
    None,
    Some(T_2023_12_31_2330),
    Some(T_2024_01_01_0030),
    Some(T_2023_06_15_1200),
    Some(<<"+">> \o T_2023_06_15_1200),
    Some(T_300000_06_01),
    Some(T_262143_01_01),
    Some(Text(I64MaxDigits)),
    Some(Text(I64MinDigits)),
    Some(<<"-", "6", "0">>),
    Some(<<>>),
    Some(<<"1", "7", ".", "5">>),
    Some(<<" ">> \o T_2023_06_15_1200) }

Types == {"message", "service", "", "Message"}

U32Max == <<Limb - 1, Limb - 1>>

ReactionLists == {
    <<>>,
    <<U32(0)>>,
    <<U32(0), U32(0)>>,
    <<U32(2)>>,
    <<U32(3), U32(0), U32(5)>>,
    <<<<1, 0>>, U32(7)>>,
    <<U32Max, U32(1)>>,
    <<U32Max, U32(2)>>,
    <<<<Limb \div 2, 0>>, <<Limb \div 2, 0>>, U32(0)>> }

ChannelIds == {
    [neg |-> TRUE, digits |-> <<1, 0, 0, 1, 2, 3, 4, 5, 6, 7, 8, 9, 0>>],
    I64(987654321),
    I64(-987654321),
    I64(-100),
    I64(-1000),
    I64(-1005),
    I64(100),
    I64(0),
    [neg |-> TRUE, digits |-> I64MinDigits] }

\* Message ids are unique within an export: 10, 11, ... by position.
Message(i, type, date, reactions) ==
    [id |-> I64(9 + i), type |-> type, date_unixtime |-> date,
     reactions |-> reactions]

\* The kinds of message of the exports with several messages.
Kinds == {"two", "seven", "two_late", "service", "wide"}

OfKind(i, k) ==
    CASE k = "two"       -> Message(i, "message", Some(T_2023_06_15_1200), <<U32(2)>>)
      [] k = "seven"     -> Message(i, "message", Some(T_2023_06_15_1200), <<U32(3), U32(4)>>)
      [] k = "two_late"  -> Message(i, "message", Some(T_2023_12_31_2330), <<U32(1), U32(0), U32(1)>>)
      [] k = "service"   -> Message(i, "service", None, <<U32(9)>>)
      [] k = "wide"      -> Message(i, "message", Some(T_2023_06_15_1200), <<U32Max, U32(2)>>)

Export(id, messages) == [kind |-> "ok", id |-> id, messages |-> messages]

BoundaryMessages ==
    << Message(1, "message", Some(T_2023_12_31_2330), <<U32(3), U32(0), U32(5)>>),
       Message(2, "message", Some(T_2024_01_01_0030), <<U32(2)>>) >>

\* The runs checked: each family varies one part of the input widely.
Inputs ==
    \* the timezone text
    { [timezone |-> tz, year |-> y, limit |-> 5,
       file |-> Export(I64(987654321), BoundaryMessages)] :
        tz \in TimezoneTexts, y \in {2023, 2024} }
    \cup
    \* the fields of one message
    { [timezone |-> tz, year |-> y, limit |-> 5,
       file |-> Export(I64(987654321), <<Message(1, t, d, r)>>)] :
        tz \in {TzPlus3, TzUtc, TzMinus5}, y \in {2023, 2024, 300000},
        t \in Types, d \in DateTexts, r \in ReactionLists }
    \cup
    \* several messages and the limit
    { [timezone |-> TzUtc, year |-> 2023, limit |-> l,
       file |-> Export(I64(987654321), [i \in 1..n |-> OfKind(i, ks[i])])] :
        l \in 0..MaxLimit, n \in 0..MaxMsgs, ks \in [1..MaxMsgs -> Kinds] }
    \cup
    \* the channel identifier
    { [timezone |-> TzUtc, year |-> 2023, limit |-> 5,
       file |-> Export(id, [i \in 1..n |-> OfKind(i, "two")])] :
        id \in ChannelIds, n \in 1..2 }
    \cup
    \* a file that cannot be opened, or that is no ChatExport
    { [timezone |-> tz, year |-> 2023, limit |-> 5, file |-> [kind |-> k]] :
        tz \in TimezoneTexts, k \in {"missing", "malformed"} }

Init ==
    /\ args \in Inputs
    /\ overflow_checks \in BOOLEAN
    /\ pc = "timezone"
    /\ failure = ""
    /\ timezone = None
    /\ file_read = FALSE
    /\ chat_data = None
    /\ log = <<>>
    /\ relevant_messages = <<>>
    /\ top_n = <<>>
    /\ out = <<>>

\* ------------------------------------------------------------- the steps
\* ParseTimezone placed behind the load: the file is read before the
\* timezone is looked at.
ParseTimezoneAfterLoad ==
    /\ pc = "timezone"
    /\ LET r == resolve_timezone(args.timezone, overflow_checks)
       IN  /\ timezone' = IF r.kind = "ok" THEN Some(r.val) ELSE None
           /\ failure' = IF r.kind = "ok" THEN "" ELSE r.why
           /\ pc' = CASE r.kind = "ok" -> "load"
                      [] r.kind = "error" -> "error"
                      [] r.kind = "panic" -> "panicked"
    /\ file_read' = TRUE
    /\ UNCHANGED <<args, overflow_checks, chat_data, log,
                   relevant_messages, top_n, out>>

\* Lines 69-83: the timezone, or the run ends.
ParseTimezone ==
    /\ pc = "timezone"
    /\ LET r == resolve_timezone(args.timezone, overflow_checks)
       IN  /\ timezone' = IF r.kind = "ok" THEN Some(r.val) ELSE None
           /\ failure' = IF r.kind = "ok" THEN "" ELSE r.why
           /\ pc' = CASE r.kind = "ok" -> "load"
                      [] r.kind = "error" -> "error"
                      [] r.kind = "panic" -> "panicked"
    /\ UNCHANGED <<args, overflow_checks, file_read, chat_data, log,
                   relevant_messages, top_n, out>>

\* load_chat_data (lines 133-138): File::open, then serde_json::from_reader.
load_chat_data(file) ==
    CASE file.kind = "missing"   -> [kind |-> "error", why |-> "open"]
      [] file.kind = "malformed" -> [kind |-> "error", why |-> "json"]
      [] file.kind = "ok"        ->
            [kind |-> "ok", val |-> [id |-> file.id, messages |-> file.messages]]

\* Lines 85-88: the two progress lines around the load.
LoadChatData ==
    /\ pc = "load"
    /\ file_read' = TRUE
    /\ LET r == load_chat_data(args.file)
           reading == [line |-> "reading"]
       IN  IF r.kind = "ok"
           THEN /\ chat_data' = Some(r.val)
                /\ out' = out \o <<reading, [line |-> "found",
                                             count |-> Len(r.val.messages)]>>
                /\ pc' = "process"
                /\ failure' = failure
           ELSE /\ chat_data' = None
                /\ out' = Append(out, reading)
                /\ pc' = "error"
                /\ failure' = r.why
    /\ UNCHANGED <<args, overflow_checks, timezone, log,
                   relevant_messages, top_n>>

\* The return path of the closure on each message it runs on: all of them,
\* or up to the one that panics.
RECURSIVE returns_from(_, _, _, _, _)
returns_from(messages, acc, target_year, tz, checks) ==
    IF messages = <<>> THEN acc
    ELSE LET r == filter_map_closure(messages[1], target_year, tz, checks)
         IN  IF r.kind = "panic" THEN Append(acc, "panic")
             ELSE returns_from(Tail(messages),
                               Append(acc, IF r.kind = "some" THEN "some" ELSE r.why),
                               target_year, tz, checks)

\* Line 91.
ProcessMessages ==
    /\ pc = "process"
    /\ LET r == process_messages(chat_data.val.messages, args.year, timezone.val,
                                 overflow_checks)
       IN  /\ relevant_messages' = IF r.kind = "ok" THEN r.val ELSE <<>>
           /\ pc' = IF r.kind = "ok" THEN "sort" ELSE "panicked"
           /\ failure' = IF r.kind = "ok" THEN failure ELSE r.why
    /\ log' = returns_from(chat_data.val.messages, <<>>, args.year,
                           timezone.val, overflow_checks)
    /\ UNCHANGED <<args, overflow_checks, timezone, file_read, chat_data,
                   top_n, out>>

\* Line 94.
SortMessages ==
    /\ pc = "sort"
    /\ relevant_messages' = sort_by(relevant_messages)
    /\ pc' = "take"
    /\ UNCHANGED <<args, overflow_checks, failure, timezone, file_read,
                   chat_data, log, top_n, out>>

\* Lines 97-105: the top, then the header line.
TakeTop ==
    /\ pc = "take"
    /\ top_n' = take(relevant_messages, args.limit)
    /\ out' = Append(out, [line |-> "header", limit |-> args.limit,
                            year |-> args.year, timezone |-> args.timezone])
    /\ pc' = "render"
    /\ UNCHANGED <<args, overflow_checks, failure, timezone, file_read,
                   chat_data, log, relevant_messages>>

\* The entries printed so far.
Entries == SelectSeq(out, LAMBDA l : l.line = "entry")

\* Lines 116-127: one turn of the loop, one line.
RenderEntry ==
    /\ pc = "render"
    /\ Len(Entries) < Len(top_n)
    /\ LET i   == Len(Entries)
           msg == top_n[i + 1]
       IN  out' = Append(out, [line |-> "entry", rank |-> i + 1,
                               date |-> date_str(msg.date),
                               link |-> link(clean_channel_id(chat_data.val.id), msg.id),
                               total_reactions |-> msg.total_reactions])
    /\ UNCHANGED <<args, overflow_checks, pc, failure, timezone, file_read,
                   chat_data, log, relevant_messages, top_n>>

\* Line 129: Ok(()).
Finish ==
    /\ pc = "render"
    /\ Len(Entries) = Len(top_n)
    /\ pc' = "done"
    /\ UNCHANGED <<args, overflow_checks, failure, timezone, file_read,
                   chat_data, log, relevant_messages, top_n, out>>

Next ==
    \/ ParseTimezone
    \/ LoadChatData
    \/ ProcessMessages
    \/ SortMessages
    \/ TakeTop
    \/ RenderEntry
    \/ Finish

Spec == Init /\ [][Next]_vars

(***************************************************************************)
(* What the properties speak of                                            *)
(***************************************************************************)
Messages == IF args.file.kind = "ok" THEN args.file.messages ELSE <<>>

\* process_messages has returned.
Processed == pc \in {"sort", "take", "render", "done"}
\* sort_by has returned.
Sorted == pc \in {"take", "render", "done"}
\* The top has been taken.
Taken == pc \in {"render", "done"}

\* Message i of the input has a ProcessedMessage (ids are unique).
Emitted(i) ==
    \E j \in 1..Len(relevant_messages) : relevant_messages[j].id = Messages[i].id

\* The position in the input of the message a ProcessedMessage comes from.
SourceOf(p) == CHOOSE i \in 1..Len(Messages) : Messages[i].id = p.id

\* The arithmetic sum of the counts, never reduced: <<hi, lo>> with hi free.
RECURSIVE ExactSum(_)
ExactSum(counts) ==
    IF counts = <<>> THEN U32Zero
    ELSE WideAdd(counts[1], ExactSum(Tail(counts)))

\* The text is a base-10 integer.
IsInteger(text) == text.some /\ ParseDecimal(text.val).some

\* The calendar year of (timestamp + offset), for any integer whose day
\* number has at most nine digits; None for the years beyond, which no i32
\* target year equals.
LocalYear(text, tz) ==
    LET v  == ParseDecimal(text.val).val
        qr == LongDiv(v.digits, 0, <<>>)
    IN  IF Len(qr.q) > 9 THEN None
        ELSE LET q    == -NegValue(qr.q, 0)
                 days == IF ~v.neg THEN q ELSE IF qr.r = 0 THEN -q ELSE -q - 1
                 secs == IF ~v.neg \/ qr.r = 0 THEN qr.r ELSE SecsPerDay - qr.r
             IN  Some(civil_from_days(days + (secs + tz) \div SecsPerDay).year)

\* The four conditions of C1 on a raw message.
Eligible(m) ==
    /\ m.type = "message"
    /\ IsInteger(m.date_unixtime)
    /\ LocalYear(m.date_unixtime, timezone.val) = Some(args.year)
    /\ ExactSum(m.reactions) # U32Zero

\* The calendar year by counting whole years from 1970, for epoch seconds
\* that fit 32 bits: a reckoning that shares nothing with civil_from_days.
IsLeap(y) == y % 4 = 0 /\ (y % 100 # 0 \/ y % 400 = 0)
YearSecs(y) == (IF IsLeap(y) THEN 366 ELSE 365) * SecsPerDay

RECURSIVE YearContaining(_, _)
YearContaining(t, y) ==
    IF t < 0 THEN YearContaining(t + YearSecs(y - 1), y - 1)
    ELSE IF t >= YearSecs(y) THEN YearContaining(t - YearSecs(y), y + 1)
    ELSE y

\* The text is a timestamp of the 32-bit era, with room for any offset.
IsSmallTimestamp(text) ==
    /\ IsInteger(text)
    /\ Len(ParseDecimal(text.val).val.digits) <= 9
       \/ DigitsLeq(ParseDecimal(text.val).val.digits, <<2, 0, 0, 0, 0, 0, 0, 0, 0, 0>>)

SmallTimestamp(text) == I32Value(ParseDecimal(text.val).val)

\* The sum of the counts fits a u32.
SumFits(m) == ExactSum(m.reactions)[1] < Limb

HeaderOrEntry == SelectSeq(out, LAMBDA l : l.line \in {"header", "entry"})

(***************************************************************************)
(* The properties                                                          *)
(***************************************************************************)
\* C1: once process_messages has returned, a raw message has a
\* ProcessedMessage if and only if its type is "message", its timestamp is a
\* base-10 integer, the calendar year of (timestamp + offset) is the target
\* year and the sum of its reaction counts is greater than 0.
C1_EmittedIffEligible ==
    Processed =>
        \A i \in 1..Len(Messages) : Emitted(i) <=> Eligible(Messages[i])

\* C1, where it does hold: for the messages whose counts sum within a u32
\* and whose timestamp chrono can represent.
C1_EmittedIffEligibleInRange ==
    Processed =>
        \A i \in 1..Len(Messages) :
            (SumFits(Messages[i]) /\ log[i] # "out_of_range")
                => (Emitted(i) <=> Eligible(Messages[i]))

\* C1: a message that is emitted is always an eligible one, and one whose
\* type is not "message" never is.
C1_OnlyEligibleEmitted ==
    Processed =>
        \A i \in 1..Len(Messages) :
            Emitted(i) => Messages[i].type = "message"

\* C2: the total_reactions of every ProcessedMessage is the exact
\* arithmetic sum of the counts of its source message, never wrapped.
C2_TotalIsExactSum ==
    Processed =>
        \A j \in 1..Len(relevant_messages) :
            relevant_messages[j].total_reactions
                = ExactSum(Messages[SourceOf(relevant_messages[j])].reactions)

\* C3: a message is kept by its year in the resolved timezone, not by its
\* UTC year: for every timestamp of the 32-bit era (type "message", counts
\* summing within a u32 to more than 0) it is emitted exactly when the year
\* counted from 1970 of (timestamp + offset) is the target year; and the
\* second of 2023-12-31T23:30:00Z is kept for 2024 and not for 2023 under
\* +0300, for 2023 and not for 2024 under +0000, and the second of
\* 2024-01-01T00:30:00Z is kept for 2023 and not for 2024 under -0500.
C3_YearIsLocal ==
    Processed =>
        \A i \in 1..Len(Messages) :
            LET m == Messages[i]
            IN  (/\ m.type = "message"
                 /\ IsSmallTimestamp(m.date_unixtime)
                 /\ SumFits(m) /\ ExactSum(m.reactions) # U32Zero)
                => /\ Emitted(i) <=>
                        YearContaining(SmallTimestamp(m.date_unixtime) + timezone.val,
                                       1970) = args.year
                   /\ (m.date_unixtime.val = T_2023_12_31_2330
                            /\ Remove(args.timezone, ":") = TzPlus3)
                        => (Emitted(i) <=> args.year = 2024)
                   /\ (m.date_unixtime.val = T_2023_12_31_2330
                            /\ args.timezone = TzUtc)
                        => (Emitted(i) <=> args.year = 2023)
                   /\ (m.date_unixtime.val = T_2024_01_01_0030
                            /\ args.timezone = TzMinus5)
                        => (Emitted(i) <=> args.year = 2023)

\* C3, reached: under +0300 the message of 2023-12-31T23:30:00Z is in the
\* result for 2024.
C3_Witness ==
    /\ Processed
    /\ args.timezone = TzPlus3 /\ args.year = 2024
    /\ \E i \in 1..Len(Messages) :
          Messages[i].date_unixtime = Some(T_2023_12_31_2330) /\ Emitted(i)

\* C4: after the sort the result is in descending order of total_reactions
\* and entries with equal totals are in the order of their source messages
\* in the input, in relevant_messages and in the top taken from it; and
\* process_messages returns the survivors in input order.
C4_DescendingStable ==
    /\ (pc = "sort") =>
          \A j, k \in 1..Len(relevant_messages) :
              j < k => SourceOf(relevant_messages[j]) < SourceOf(relevant_messages[k])
    /\ Sorted =>
          \A j, k \in 1..Len(relevant_messages) :
              j < k =>
                LET a == relevant_messages[j]
                    b == relevant_messages[k]
                IN  /\ U32Cmp(a.total_reactions, b.total_reactions) >= 0
                    /\ a.total_reactions = b.total_reactions
                          => SourceOf(a) < SourceOf(b)
    /\ Taken =>
          \A j, k \in 1..Len(top_n) :
              j < k =>
                /\ U32Cmp(top_n[j].total_reactions, top_n[k].total_reactions) >= 0
                /\ top_n[j].total_reactions = top_n[k].total_reactions
                      => SourceOf(top_n[j]) < SourceOf(top_n[k])

\* C4, reached: a finished run whose top holds two entries with equal
\* totals behind an entry that came after both in the input.
C4_Witness ==
    /\ pc = "done"
    /\ Len(top_n) >= 3
    /\ top_n[2].total_reactions = top_n[3].total_reactions
    /\ SourceOf(top_n[1]) > SourceOf(top_n[3])
    /\ Len(Entries) = Len(top_n)

\* C5: the top is the first min(L, E) elements of the sorted sequence: empty
\* for L = 0, all E elements for L >= E, and in neither case an error.
C5_TopIsPrefix ==
    Taken =>
        LET E == Len(relevant_messages)
        IN  /\ Len(top_n) = Min(args.limit, E)
            /\ \A j \in 1..Len(top_n) : top_n[j] = relevant_messages[j]
            /\ args.limit = 0 => top_n = <<>>
            /\ args.limit >= E => top_n = relevant_messages
            /\ failure = ""

\* C5, reached: a finished run with a limit above the number of eligible
\* messages, all of them in the top.
C5_Witness ==
    /\ pc = "done"
    /\ Len(relevant_messages) > 0
    /\ args.limit > Len(relevant_messages)
    /\ top_n = relevant_messages

\* C5, reached as well: limit 0 with eligible messages, an empty top.
C5_WitnessZero ==
    /\ pc = "done"
    /\ args.limit = 0
    /\ Len(relevant_messages) > 0
    /\ top_n = <<>>

\* C6: for every i32 N parsed from the timezone text, with
\* seconds = (N / 100) * 3600 + (N % 100) * 60 as integers, the resolver
\* fails with InvalidTimezoneOffset when seconds is not strictly within a
\* day either side, accepts exactly that value otherwise, and so accepts
\* only offsets from -86340 to 86340.
C6_OffsetInRangeOrError ==
    LET n == parse_i32(Remove(args.timezone, ":"))
    IN  (pc # "timezone" /\ n.some) =>
            LET h == TruncDiv(n.val, 100)
                \* 24 hours or more are outside whatever the minutes
                outside == Abs(h) >= 24
                           \/ Abs(h * 3600 + TruncRem(n.val, 100) * 60) >= 24 * 3600
            IN  /\ outside => failure = "InvalidTimezoneOffset"
                /\ ~outside =>
                      timezone = Some(h * 3600 + TruncRem(n.val, 100) * 60)
                /\ timezone.some => timezone.val \in -86340..86340

\* C6, where it does hold: when N / 100 is small enough for the product
\* and the sum to fit an i32.
C6_OffsetInRangeOrErrorNoOverflow ==
    LET n == parse_i32(Remove(args.timezone, ":"))
    IN  (pc # "timezone" /\ n.some /\ Abs(TruncDiv(n.val, 100)) < 590000) =>
            LET secs == TruncDiv(n.val, 100) * 3600 + TruncRem(n.val, 100) * 60
            IN  /\ Abs(secs) >= 24 * 3600 => failure = "InvalidTimezoneOffset"
                /\ Abs(secs) < 24 * 3600 => timezone = Some(secs)
                /\ timezone.some => timezone.val \in -86340..86340

\* C7: a run that ends in an error has printed no header and no entry and
\* has run the closure on no record; a timezone error comes before the file
\* is read, with nothing printed at all; the file is never read without a
\* resolved timezone, and no record is processed and no header printed
\* without a loaded export.
C7_ErrorsBeforeProcessing ==
    /\ (pc = "error") =>
          /\ failure \in {"InvalidTimezoneFormat", "InvalidTimezoneOffset",
                           "open", "json"}
          /\ HeaderOrEntry = <<>>
          /\ log = <<>> /\ relevant_messages = <<>> /\ top_n = <<>>
          /\ failure \in {"InvalidTimezoneFormat", "InvalidTimezoneOffset"}
                => (~file_read /\ out = <<>>)
          /\ failure \in {"open", "json"} => ~chat_data.some
    /\ file_read => timezone.some
    /\ (log # <<>> \/ HeaderOrEntry # <<>>) => (chat_data.some /\ pc # "error")

\* C7, reached: a run ended by InvalidTimezoneOffset.
C7_Witness ==
    pc = "error" /\ failure = "InvalidTimezoneOffset" /\ args.file.kind = "ok"

\* C7, reached as well: a run ended by a file that is no ChatExport.
C7_WitnessLoad ==
    pc = "error" /\ failure = "json" /\ timezone.some

\* C8: every printed link is https://t.me/c/{cleanId}/{m}, cleanId being the
\* decimal text of the channel id without a leading "-100", and cleanId is
\* never empty.
C8_LinkAndCleanId ==
    \A e \in 1..Len(Entries) :
        LET text  == to_string(chat_data.val.id)
            clean == IF starts_with(text, <<"-", "1", "0", "0">>)
                     THEN SubSeq(text, 5, Len(text)) ELSE text
        IN  /\ Entries[e].link
                  = <<"https://t.me/c/">> \o clean \o <<"/">> \o to_string(top_n[e].id)
            /\ clean # <<>>

\* C8, the form of the link alone, which does hold.
C8_LinkForm ==
    \A e \in 1..Len(Entries) :
        LET text  == to_string(chat_data.val.id)
            clean == IF starts_with(text, <<"-", "1", "0", "0">>)
                     THEN SubSeq(text, 5, Len(text)) ELSE text
        IN  Entries[e].link
                = <<"https://t.me/c/">> \o clean \o <<"/">> \o to_string(top_n[e].id)

\* C9: whatever the records, process_messages completes: once it has
\* started the run has not aborted, and the closure has run on every record.
C9_NoRecordAborts ==
    (chat_data.some /\ pc # "process") =>
        /\ pc # "panicked"
        /\ Len(log) = Len(Messages)
        /\ \A i \in 1..Len(log) : log[i] # "panic"

\* C9, where it does hold: without overflow checks no record aborts.
C9_NoRecordAbortsRelease ==
    (~overflow_checks /\ chat_data.some /\ pc # "process") =>
        /\ pc # "panicked"
        /\ Len(log) = Len(Messages)

\* C10: a message whose timestamp parses as an i64 is never dropped by the
\* conversion: once process_messages has returned, each such message of type
\* "message" (its counts summing within a u32) that was not emitted has a
\* local year other than the target year or a zero sum.
C10_ConversionNeverDrops ==
    Processed =>
        \A i \in 1..Len(Messages) :
            LET m == Messages[i]
            IN  (/\ m.type = "message"
                 /\ m.date_unixtime.some /\ parse_i64(m.date_unixtime.val).some
                 /\ SumFits(m)
                 /\ ~Emitted(i))
                => \/ LocalYear(m.date_unixtime, timezone.val) # Some(args.year)
                   \/ ExactSum(m.reactions) = U32Zero

\* C10, by the return path: the closure never returns at the conversion.
C10_NoReturnAtConversion ==
    \A i \in 1..Len(log) : log[i] # "out_of_range"

\* C10, where it does hold: a timestamp chrono can represent is converted to
\* the calendar moment of (timestamp + offset), shown here by its year.
C10_ExactWithinChronoRange ==
    Processed =>
        \A j \in 1..Len(relevant_messages) :
            LET m == Messages[SourceOf(relevant_messages[j])]
            IN  /\ Some(relevant_messages[j].date.year)
                      = LocalYear(m.date_unixtime, timezone.val)
                /\ relevant_messages[j].date.offset = timezone.val

====
